---- MODULE Spec2Model ----
\* TextBee coordinator (custom_components/textbee/coordinator.py) and the
\* send_message service (custom_components/textbee/__init__.py) as a state
\* machine.  Python objects live in a heap indexed by reference, because the
\* coordinator shares TextBeeDeviceState objects between self.data.devices,
\* the poll cycle's local new_devices copy and the pulse-timer closures.
EXTENDS Integers, Sequences, FiniteSets, TLC

\* ---------------------------------------------------------------- bounds
MaxRecv == 3        \* cap on total_received (ingestions)
MaxSent == 2        \* cap on total_sent (successful sends)
MaxObj == 3         \* cap on TextBeeDeviceState objects ever allocated
MaxInflight == 1    \* cap on outbound sends awaiting their HTTP reply
MaxHook == 2        \* cap on webhook ingestions
MaxReply == 2       \* cap on auto-reply sends issued
MaxTime == 2        \* cap on the clock

\* timedelta(hours=1), in the clock's unit of half an hour
Hour == 2

\* ------------------------------------------------------- python values
None == "None"

\* bool(v) for the string-or-None values the code tests with `or` / `if`
Truthy(v) == v # None /\ v # ""

\* dict.get(k): None when the key is absent
Get(m, k) == IF k \in DOMAIN m THEN m[k] ELSE None

\* a or b or ... : the first truthy operand, else the last operand
OrChain(vals) ==
    LET hit == {j \in 1..Len(vals) : Truthy(vals[j])}
    IN  IF hit = {} THEN vals[Len(vals)]
        ELSE vals[CHOOSE j \in hit : \A k \in hit : j <= k]

\* a dict whose keys are the DOMAIN of a function
EmptyDict == <<>>
DictSet(f, k, v) == [x \in DOMAIN f \cup {k} |-> IF x = k THEN v ELSE f[x]]

\* ------------------------------------------------------- JSON numbers
\* the values the signal keys of a descriptor can carry: null, a number (n,
\* or n + 1/2, a float) or a non-empty string
Null == [json |-> "null"]
Num(n) == [num |-> n, half |-> FALSE]
NumHalf(n) == [num |-> n, half |-> TRUE]

\* m.get(k) of those values
JsonGet(m, k) == IF k \in DOMAIN m THEN m[k] ELSE Null

\* isinstance(x, (int, float))
IsNumber(x) == "num" \in DOMAIN x

\* bool(x)
JsonTruthy(x) == IF IsNumber(x) THEN x.num # 0 \/ x.half ELSE x.json = "string"

\* int(x): truncation towards zero
IntOf(x) == IF x.half /\ x.num < 0 THEN x.num + 1 ELSE x.num

\* ------------------------------------------------ insertion-ordered dict
\* dict[str, TextBeeDeviceState] as the sequence of its items in insertion
\* order; the value is the reference of the state object.
Keys(d) == {d[j].id : j \in 1..Len(d)}
Has(d, k) == k \in Keys(d)
Lookup(d, k) == d[CHOOSE j \in 1..Len(d) : d[j].id = k].ref
FirstKey(d) == d[1].id
Put(d, k, r) ==
    IF Has(d, k)
    THEN [j \in 1..Len(d) |-> IF d[j].id = k THEN [id |-> k, ref |-> r] ELSE d[j]]
    ELSE Append(d, [id |-> k, ref |-> r])

\* ------------------------------------------------------------- inputs
\* what the gateway and the webhook sender can deliver
DeviceIds == {"d1", "d2"}

M1 == [_id |-> "m1", sender |-> "+1555", message |-> "hi", receivedAt |-> 1]
M2 == [id |-> "m2", from |-> "+1666", body |-> "yo", createdAt |-> 2]
M0 == [sender |-> "+1555", message |-> "anon", sentAt |-> 3]
Messages == {M1, M2, M0}
MsgIds == {"m1", "m2"}

\* lists async_get_received_sms can return (the gateway's list for a device,
\* in any order)
MessageLists ==
    {<<>>, <<M1>>, <<M2>>, <<M0>>, <<M1, M2>>, <<M2, M1>>, <<M0, M1>>}

\* message m1 as the gateway renders it after an edit of its text, and the
\* lists of a gateway that renders it so
M1e == [_id |-> "m1", sender |-> "+1555", message |-> "hi!", receivedAt |-> 1]
EditedLists == MessageLists \cup {<<M1e>>}

\* messages whose timestamp keys tie (TA with TB, and both above M1) and
\* messages without any timestamp, and the lists they come in
TA == [_id |-> "m1", sender |-> "+1555", message |-> "a", createdAt |-> 2]
TB == [id |-> "m2", from |-> "+1666", body |-> "b", receivedAt |-> 2]
UA == [_id |-> "m1", sender |-> "+1555", message |-> "ua"]
UB == [id |-> "m2", from |-> "+1666", body |-> "ub"]
TiedLists ==
    MessageLists
    \cup {<<TA, TB>>, <<TB, TA>>, <<M1, TA, TB>>, <<TB, M1, TA>>,
          <<UA>>, <<UA, M1>>, <<UA, UB>>, <<UB, UA>>}

\* device descriptors of async_get_devices: the vendor's schema differs
\* between devices
Descriptor(d) == IF d = "d1" THEN [id |-> d] ELSE [_id |-> d, online |-> FALSE]
SingleLists == {<<>>, <<Descriptor("d1")>>}
DeviceLists ==
    {<<>>}
    \cup {<<Descriptor(d)>> : d \in DeviceIds}
    \cup {<<Descriptor(p[1]), Descriptor(p[2])>> :
            p \in {q \in DeviceIds \X DeviceIds : q[1] # q[2]}}

\* webhook payloads: nested ({deviceId, data: msg}) and flat (the payload is
\* the message); "dx" and "dy" are ids the gateway's device list never carries
Payloads ==
    {[deviceId |-> "d1", data |-> m] : m \in {M1, M2}}
    \cup {[device_id |-> "dx", smsId |-> "m2", sender |-> "+1555", message |-> "flat"],
          [gatewayId |-> "dy", _id |-> "m1", from |-> "+1666", body |-> "flat"],
          [data |-> M1]}

\* send_message service calls (recipients already split into a list)
SendCalls ==
    {[device_id |-> "d1", recipients |-> <<"+1555", "+1666">>, message |-> "out"],
     [device_id |-> "dz", recipients |-> <<"+1555">>, message |-> "out"],
     [recipients |-> <<"+1555">>, message |-> "out"],
     [device_id |-> "d1", recipients |-> <<>>, message |-> "out"]}

\* request bodies that carry no usable event: a JSON array (a value that is
\* not an object is written [json |-> its kind]) and an empty device id
BadPayloads ==
    {[json |-> "array"],
     [deviceId |-> "", data |-> M1]}

\* a webhook event whose message names no sender
SenderlessPayloads ==
    {[deviceId |-> "d1", data |-> [_id |-> "m1", message |-> "hi"]]}

\* signal readings of a descriptor: raw strengths around the thresholds of
\* the bar scale and discrete bar counts
RawValues == {-1, 0, 1, 24, 25, 49, 50, 74, 75, 100}
BarValues == {-1, 0, 3, 4, 5}

\* descriptors of device d1 with signal fields, under the vendor's aliases
SignalDescriptors ==
    {[id |-> "d1"]}
    \cup {[id |-> "d1", signal |-> Num(v)] : v \in RawValues}
    \cup {[id |-> "d1", signalBars |-> Num(b)] : b \in BarValues}
    \cup {[id |-> "d1", signalStrength |-> NumHalf(24)],
          [id |-> "d1", signalBars |-> NumHalf(4), signal |-> Num(60)],
          [id |-> "d1", signalBars |-> [json |-> "string"], signal_level |-> Num(60)],
          [id |-> "d1", signal_strength |-> Num(0), signal_level |-> Num(0)],
          [id |-> "d1", signal |-> [json |-> "string"]]}
SignalLists == {<<dev>> : dev \in SignalDescriptors}

Sources == {"poll", "webhook"}

\* the device whose auto-reply switch and text entities are operated, and the
\* texts set_auto_reply_message is called with (one of them blank)
ReplyDevs == {"d1"}
ReplyTexts == {"  ", "auto"}

\* -------------------------------------------------------------- state
VARIABLES
    heap,            \* Seq of TextBeeDeviceState objects; index = reference
    devices,         \* self.data.devices
    total_sent,      \* self.data.total_sent
    total_received,  \* self.data.total_received
    timers,          \* pending _clear_pulse callbacks, in arming order
    pc,              \* position of _async_update_data
    devices_raw,     \* its local devices_raw
    idx,             \* its loop position in devices_raw
    new_devices,     \* its local new_devices
    state,           \* its local state (a reference)
    inflight,        \* send_message calls awaiting client.async_send_sms
    last_call,       \* the send_message call that finished last: how its
                     \* send ended and how the handler ended
    auto_reply_enabled,  \* self._auto_reply_enabled
    auto_reply_message,  \* self._auto_reply_message
    auto_reply_last,     \* self._auto_reply_last
    now,             \* dt_util.utcnow(), in half hours
    eager_start,     \* whether hass.async_create_task runs a coroutine up to
                     \* its first await at once (it depends on the Home
                     \* Assistant release) or at the next loop iteration
    tasks,           \* _async_maybe_autoreply tasks created and not yet started
    replies,         \* the auto-reply sends issued, in order: in flight
                     \* ("sending") or finished ("sent", "failed")
    counted,         \* history: per object, per (source, id), increments of received_count
    hooks,           \* history: the number of webhook ingestions so far
    pulse_clears,    \* history: the number of _clear_pulse callbacks that have run
    hook_raised,     \* whether the last call of _handle_webhook ended with
                     \* an exception instead of returning
    unpublished,     \* whether a step has written to a state object, the
                     \* mapping or a total since the last notification of
                     \* the listeners (async_set_updated_data, or the
                     \* refresh that called _async_update_data returning)
    cycle            \* history of the current poll cycle: the devices it saw
                     \* for the first time (with the id and text of their
                     \* latest message), the devices whose fetch failed, the
                     \* state objects it has ingested a message on while it
                     \* runs, and how the cycle ended ("ok": it returned
                     \* self.data, "failed": it raised UpdateFailed)

vars == <<heap, devices, total_sent, total_received, timers, pc, devices_raw,
          idx, new_devices, state, inflight, last_call, counted, cycle,
          auto_reply_enabled, auto_reply_message, auto_reply_last, now,
          eager_start, tasks, replies, hooks, hook_raised, pulse_clears, unpublished>>

\* what only the auto-reply configuration hooks and the clock change
configVars == <<auto_reply_enabled, auto_reply_message, now, eager_start>>

\* the auto-reply state
replyVars == <<auto_reply_last, tasks, replies>>

\* None in a dict-valued field (falsy, no keys)
NoMsg == <<>>

\* TextBeeDeviceState(device_id=...)
NewState(device_id) ==
    [device_id |-> device_id,
     status |-> None,
     last_message |-> NoMsg,
     last_message_id |-> None,
     new_message_pulse |-> FALSE,
     last_error |-> None,
     signal_bars |-> Null,
     signal_value |-> Null,
     sent_count |-> 0,
     received_count |-> 0,
     last_direction |-> None,
     last_incoming_from |-> None,
     last_incoming_text |-> None,
     last_outgoing_to |-> None,
     last_outgoing_text |-> None]

\* history keys: (source, device id the event was delivered for, message id)
AllDeviceIds == DeviceIds \cup {"dx", "dy"}
NoCount == [k \in Sources \X AllDeviceIds \X (MsgIds \cup {None}) |-> 0]

\* the (device id, message id) pairs of the history keys, enumerated
CountKeys ==
    LET RECURSIVE Enum(_)
        Enum(K) == IF K = {} THEN <<>>
                   ELSE LET k == CHOOSE x \in K : TRUE
                        IN  <<k>> \o Enum(K \ {k})
    IN  Enum(AllDeviceIds \X (MsgIds \cup {None}))

\* no send_message call has finished yet
NoCall == [send |-> "none", handler |-> "none"]

NoCycle == [fresh |-> {}, failed |-> {}, ingested |-> {}, outcome |-> "none"]

Init ==
    /\ heap = <<>>
    /\ devices = <<>>
    /\ total_sent = 0
    /\ total_received = 0
    /\ timers = <<>>
    /\ pc = "idle"
    /\ devices_raw = <<>>
    /\ idx = 0
    /\ new_devices = <<>>
    /\ state = 0
    /\ inflight = <<>>
    /\ last_call = NoCall
    /\ counted = <<>>
    /\ cycle = NoCycle
    /\ auto_reply_enabled = EmptyDict
    /\ auto_reply_message = EmptyDict
    /\ auto_reply_last = EmptyDict
    /\ now = 0
    /\ eager_start \in BOOLEAN
    /\ tasks = <<>>
    /\ replies = <<>>
    /\ hooks = 0
    /\ hook_raised = FALSE
    /\ pulse_clears = 0
    /\ unpublished = FALSE

\* construction under a Home Assistant release whose async_create_task starts
\* coroutines eagerly.  The specifications that never operate the auto-reply
\* entities start here: with auto-reply off a task returns at its first test
\* whenever it starts, so the release makes no difference to them.
InitEager == Init /\ eager_start

\* history: how often the object r had received_count incremented, by source
IngestedBy(cnt, r, src) ==
    LET RECURSIVE Sum(_)
        Sum(n) == IF n = 0 THEN 0 ELSE Sum(n - 1) + cnt[r][<<src, CountKeys[n][1], CountKeys[n][2]>>]
    IN  Sum(Len(CountKeys))

Ingestions(r) == IngestedBy(counted, r, "poll") + IngestedBy(counted, r, "webhook")

\* history: number of webhook ingestions so far
HooksDone ==
    LET RECURSIVE Sum(_)
        Sum(n) == IF n = 0 THEN 0 ELSE Sum(n - 1) + IngestedBy(counted, n, "webhook")
    IN  Sum(Len(counted))

\* the mutable part of the coordinator that _process_incoming_message works on
Store ==
    [heap |-> heap, devices |-> devices, total_received |-> total_received,
     timers |-> timers, counted |-> counted, cycle |-> cycle,
     auto_reply_last |-> auto_reply_last, tasks |-> tasks, replies |-> replies,
     unpublished |-> unpublished]

\* message.strip() of the texts of ReplyTexts and of ""
Strip(text) == IF text \in {"", "  "} THEN "" ELSE text

\* mutation of MaybeAutoreply: the task does not look at the switch
MaybeAutoreplyUnswitched(S, device_id, sender) ==
    LET message == OrChain(<<Get(auto_reply_message, device_id), "">>)
        last1 == IF device_id \in DOMAIN S.auto_reply_last
                 THEN S.auto_reply_last
                 ELSE DictSet(S.auto_reply_last, device_id, EmptyDict)
        per_device == last1[device_id]
    IN  IF Strip(message) = "" THEN S
        ELSE IF sender \in DOMAIN per_device /\ now - per_device[sender] < Hour
        THEN [S EXCEPT !.auto_reply_last = last1]
        ELSE [S EXCEPT !.auto_reply_last = last1,
                       !.replies =
                          Append(@, [device_id |-> device_id, sender |-> sender,
                                     message |-> message, now |-> now,
                                     status |-> "sending"])]

\* _async_maybe_autoreply(device_id, sender) up to its return or its await of
\* client.async_send_sms
MaybeAutoreply(S, device_id, sender) ==
    LET message == OrChain(<<Get(auto_reply_message, device_id), "">>)
        last1 == IF device_id \in DOMAIN S.auto_reply_last
                 THEN S.auto_reply_last
                 ELSE DictSet(S.auto_reply_last, device_id, EmptyDict)
        per_device == last1[device_id]
    IN  IF ~(device_id \in DOMAIN auto_reply_enabled /\ auto_reply_enabled[device_id])
        THEN S
        ELSE IF Strip(message) = "" THEN S
        ELSE IF sender \in DOMAIN per_device /\ now - per_device[sender] < Hour
        THEN [S EXCEPT !.auto_reply_last = last1]
        ELSE [S EXCEPT !.auto_reply_last = last1,
                       !.replies =
                          Append(@, [device_id |-> device_id, sender |-> sender,
                                     message |-> message, now |-> now,
                                     status |-> "sending"])]

\* self.hass.async_create_task(self._async_maybe_autoreply(device_id, sender))
CreateTask(S, device_id, sender) ==
    IF eager_start THEN MaybeAutoreply(S, device_id, sender)
    ELSE [S EXCEPT !.tasks = Append(@, [device_id |-> device_id, sender |-> sender])]

\* msg.get("sender") or msg.get("from") or ...
SenderOf(msg) ==
    OrChain(<<Get(msg, "sender"), Get(msg, "from"), Get(msg, "senderNumber"),
              Get(msg, "phoneNumber")>>)

\* msg.get("message") or msg.get("body")
TextOf(msg) == OrChain(<<Get(msg, "message"), Get(msg, "body")>>)

\* the id a message is ingested under: sms_id or the message's own id keys
IngestId(msg, sms_id) ==
    OrChain(<<sms_id, Get(msg, "_id"), Get(msg, "id"), Get(msg, "smsId")>>)

\* mutation of TargetKey: an unknown id falls back to the most recently
\* inserted device
TargetKeyLast(devs, device_id) ==
    IF ~Has(devs, device_id) /\ devs # <<>> THEN devs[Len(devs)].id ELSE device_id

\* mutation of TargetKey: with no device known, the record is created under
\* a placeholder id
TargetKeyPlaceholder(devs, device_id) ==
    IF Has(devs, device_id) THEN device_id
    ELSE IF devs # <<>> THEN FirstKey(devs) ELSE "unknown"

\* mutation of TargetKey: an unknown id is never remapped, its record is
\* created
TargetKeyGiven(devs, device_id) == device_id

\* the record an event for device_id lands on: the device itself when known,
\* else the first-inserted device, else device_id itself (to be created)
TargetKey(devs, device_id) ==
    IF ~Has(devs, device_id) /\ devs # <<>> THEN FirstKey(devs) ELSE device_id

\* mutation of IngestedRecord: the ingestion leaves last_error as it was
IngestedRecordKeepsError(old, msg, mid) ==
    [old EXCEPT
       !.last_message = msg,
       !.last_message_id = OrChain(<<mid, old.last_message_id>>),
       !.last_direction = "incoming",
       !.last_incoming_from = SenderOf(msg),
       !.last_incoming_text = TextOf(msg),
       !.received_count = old.received_count + 1,
       !.new_message_pulse = TRUE,
       !.status = OrChain(<<old.status, "online">>)]

\* the record after the assignments of _process_incoming_message to
\* dev_state (lines 262-290), mid being the id the message carries
IngestedRecord(old, msg, mid) ==
    [old EXCEPT
       !.last_message = msg,
       !.last_message_id = OrChain(<<mid, old.last_message_id>>),
       !.last_direction = "incoming",
       !.last_incoming_from = SenderOf(msg),
       !.last_incoming_text = TextOf(msg),
       !.received_count = old.received_count + 1,
       !.new_message_pulse = TRUE,
       !.status = OrChain(<<old.status, "online">>),
       !.last_error = None]

\* _process_incoming_message(device_id, msg, sms_id), called from src
ProcessIncoming(S, device_id, msg, sms_id, src) ==
    LET did == TargetKey(S.devices, device_id)
        create == ~Has(S.devices, did)
        heap1 == IF create THEN Append(S.heap, NewState(did)) ELSE S.heap
        cnt1 == IF create THEN Append(S.counted, NoCount) ELSE S.counted
        devs1 == IF create
                 THEN Append(S.devices, [id |-> did, ref |-> Len(heap1)])
                 ELSE S.devices
        r == Lookup(devs1, did)
        old == heap1[r]
        mid == IngestId(msg, sms_id)
        key == <<src, device_id, IF Truthy(mid) THEN mid ELSE None>>
        new == IngestedRecord(old, msg, mid)
        S1 == [S EXCEPT !.heap = [heap1 EXCEPT ![r] = new],
                        !.devices = devs1,
                        !.total_received = S.total_received + 1,
                        !.timers = Append(S.timers, r),
                        !.counted = [cnt1 EXCEPT ![r][key] = @ + 1],
                        !.cycle.ingested = IF src = "poll" THEN @ \cup {r} ELSE @,
                        !.unpublished = FALSE]
    IN  IF Truthy(SenderOf(msg)) THEN CreateTask(S1, did, SenderOf(msg)) ELSE S1

\* ------------------------------------------------------ the poll cycle
\* str(dev.get("id") or dev.get("_id") or dev.get("deviceId"))
DevIdOf(dev) == OrChain(<<Get(dev, "id"), Get(dev, "_id"), Get(dev, "deviceId")>>)

\* the status the merge stores (coordinator.py 191-197)
MergedStatus(dev, prior) ==
    LET s1 == OrChain(<<Get(dev, "status"), Get(dev, "state")>>)
        s2 == IF ~Truthy(s1) /\ "online" \in DOMAIN dev
              THEN (IF dev.online THEN "online" ELSE "offline")
              ELSE s1
    IN  IF Truthy(s2) THEN s2 ELSE OrChain(<<prior, "online">>)

\* dev.get("signal_strength") or dev.get("signalStrength") or
\* dev.get("signal") or dev.get("signal_level"): the first truthy value, else
\* the last one
SignalVal(dev) ==
    LET keys == <<"signal_strength", "signalStrength", "signal", "signal_level">>
        RECURSIVE Pick(_)
        Pick(j) == IF j = Len(keys) \/ JsonTruthy(JsonGet(dev, keys[j]))
                   THEN JsonGet(dev, keys[j])
                   ELSE Pick(j + 1)
    IN  Pick(1)

\* the bars of a raw strength v (lines 155-164)
BarsOf(v) ==
    IF v.num < 0 \/ (v.num = 0 /\ ~v.half) THEN 0
    ELSE IF v.num < 25 THEN 1
    ELSE IF v.num < 50 THEN 2
    ELSE IF v.num < 75 THEN 3
    ELSE 4

\* the signal fields of record rec after the merge of descriptor dev (lines
\* 143-166)
MergeSignal(rec, dev) ==
    IF IsNumber(JsonGet(dev, "signalBars"))
    THEN [rec EXCEPT !.signal_bars = Num(IntOf(dev.signalBars))]
    ELSE IF IsNumber(SignalVal(dev))
    THEN [rec EXCEPT !.signal_bars = Num(BarsOf(SignalVal(dev))),
                     !.signal_value = SignalVal(dev)]
    ELSE rec

\* _ts(m): the first present timestamp; 0 stands for "" (sorts lowest)
Ts(m) ==
    IF "receivedAt" \in DOMAIN m /\ m.receivedAt # 0 THEN m.receivedAt
    ELSE IF "createdAt" \in DOMAIN m /\ m.createdAt # 0 THEN m.createdAt
    ELSE IF "sentAt" \in DOMAIN m THEN m.sentAt
    ELSE 0

\* sorted(messages, key=_ts, reverse=True): a stable sort by descending key,
\* so each message goes behind the earlier messages whose key is not lower
RECURSIVE SortedDesc(_)
SortedDesc(msgs) ==
    IF msgs = <<>> THEN <<>>
    ELSE LET m == msgs[Len(msgs)]
             s == SortedDesc(SubSeq(msgs, 1, Len(msgs) - 1))
             p == Cardinality({k \in 1..Len(s) : Ts(s[k]) >= Ts(m)})
         IN  SubSeq(s, 1, p) \o <<m>> \o SubSeq(s, p + 1, Len(s))

\* mutation of Latest: of the messages with the highest key the last one
LatestLastMax(msgs) ==
    IF msgs = <<>> THEN NoMsg
    ELSE msgs[CHOOSE j \in 1..Len(msgs) :
                /\ \A k \in 1..Len(msgs) : Ts(msgs[k]) <= Ts(msgs[j])
                /\ \A k \in (j + 1)..Len(msgs) : Ts(msgs[k]) < Ts(msgs[j])]

\* latest_msg: messages_sorted[0] if messages else None
Latest(msgs) == IF msgs = <<>> THEN NoMsg ELSE SortedDesc(msgs)[1]

\* lines 102-198 for descriptor dev: find or allocate the state object and
\* merge the descriptor into it, up to the await of async_get_received_sms
BeginDevice(S, nd, dev) ==
    LET dev_id == DevIdOf(dev)
        known == Has(nd, dev_id)
        heap1 == IF known THEN S.heap ELSE Append(S.heap, NewState(dev_id))
        cnt1 == IF known THEN S.counted ELSE Append(S.counted, NoCount)
        r == IF known THEN Lookup(nd, dev_id) ELSE Len(heap1)
    IN  [S EXCEPT
           !.heap = [heap1 EXCEPT
                       ![r] = [MergeSignal(@, dev) EXCEPT
                                 !.status = MergedStatus(dev, heap1[r].status),
                                 !.last_error = None]],
           !.counted = cnt1,
           !.unpublished = TRUE]

\* the reference BeginDevice leaves in the local `state`
StateRef(S, nd, dev) ==
    IF Has(nd, DevIdOf(dev)) THEN Lookup(nd, DevIdOf(dev)) ELSE Len(S.heap) + 1

\* write a store back into the variables; steps that would pass a bound of
\* the model are not taken
Commit(S) ==
    /\ Len(S.heap) <= MaxObj
    /\ S.total_received <= MaxRecv
    /\ Len(S.replies) <= MaxReply
    /\ auto_reply_last' = S.auto_reply_last
    /\ tasks' = S.tasks
    /\ replies' = S.replies
    /\ heap' = S.heap
    /\ devices' = S.devices
    /\ total_received' = S.total_received
    /\ timers' = S.timers
    /\ counted' = S.counted
    /\ cycle' = S.cycle
    /\ unpublished' = S.unpublished

\* mutation of Advance: the refresh that ran the cycle does not notify the
\* listeners when the cycle returns
AdvanceUnnotified(S, nd) ==
    IF idx < Len(devices_raw)
    THEN /\ Commit(BeginDevice(S, nd, devices_raw[idx + 1]))
         /\ state' = StateRef(S, nd, devices_raw[idx + 1])
         /\ new_devices' = nd
         /\ idx' = idx + 1
         /\ pc' = "get_sms"
         /\ UNCHANGED devices_raw
    ELSE /\ Commit([S EXCEPT !.devices = nd, !.cycle.outcome = "ok",
                           !.cycle.ingested = {}])
         /\ state' = 0
         /\ new_devices' = <<>>
         /\ idx' = 0
         /\ pc' = "idle"
         /\ devices_raw' = <<>>

\* the loop moves on from position idx with local dict nd: either the next
\* descriptor is merged and its message fetch awaited, or the cycle returns
\* (self.data.devices = new_devices)
Advance(S, nd) ==
    IF idx < Len(devices_raw)
    THEN /\ Commit(BeginDevice(S, nd, devices_raw[idx + 1]))
         /\ state' = StateRef(S, nd, devices_raw[idx + 1])
         /\ new_devices' = nd
         /\ idx' = idx + 1
         /\ pc' = "get_sms"
         /\ UNCHANGED devices_raw
    ELSE /\ Commit([S EXCEPT !.devices = nd, !.cycle.outcome = "ok",
                           !.cycle.ingested = {},
                           !.unpublished = FALSE])
         /\ state' = 0
         /\ new_devices' = <<>>
         /\ idx' = 0
         /\ pc' = "idle"
         /\ devices_raw' = <<>>

\* the update interval elapses: _async_update_data starts and awaits
\* client.async_get_devices()
PollStart ==
    /\ pc = "idle"
    /\ pc' = "get_devices"
    /\ cycle' = NoCycle
    /\ UNCHANGED <<heap, devices, total_sent, total_received, timers,
                   devices_raw, idx, new_devices, state, inflight, last_call, counted>>
    /\ UNCHANGED <<configVars, hooks, hook_raised, pulse_clears, replyVars, unpublished>>

\* mutation of PollDevicesFail: the failed cycle publishes an empty mapping
PollDevicesFailClears ==
    /\ pc = "get_devices"
    /\ pc' = "idle"
    /\ cycle' = [cycle EXCEPT !.outcome = "failed"]
    /\ devices' = <<>>
    /\ UNCHANGED <<heap, total_sent, total_received, timers,
                   devices_raw, idx, new_devices, state, inflight, last_call, counted>>
    /\ UNCHANGED <<configVars, hooks, hook_raised, pulse_clears, replyVars, unpublished>>

\* async_get_devices raises TextBeeError: UpdateFailed
PollDevicesFail ==
    /\ pc = "get_devices"
    /\ pc' = "idle"
    /\ cycle' = [cycle EXCEPT !.outcome = "failed"]
    /\ UNCHANGED <<heap, devices, total_sent, total_received, timers,
                   devices_raw, idx, new_devices, state, inflight, last_call, counted>>
    /\ UNCHANGED <<configVars, hooks, hook_raised, pulse_clears, replyVars, unpublished>>

\* async_get_devices returns devs
PollDevicesOk(devs) ==
    /\ pc = "get_devices"
    /\ devices_raw' = devs
    /\ IF devs = <<>>
       THEN /\ pc' = "idle"
            /\ cycle' = [cycle EXCEPT !.outcome = "ok"]
            /\ unpublished' = FALSE
            /\ UNCHANGED <<heap, devices, total_received, timers, counted,
                           idx, new_devices, state, replyVars>>
       ELSE /\ Commit(BeginDevice(Store, devices, devs[1]))
            /\ state' = StateRef(Store, devices, devs[1])
            /\ new_devices' = devices
            /\ idx' = 1
            /\ pc' = "get_sms"
    /\ UNCHANGED <<total_sent, inflight, last_call, configVars, hooks, hook_raised, pulse_clears>>

\* async_get_received_sms raises TextBeeError for the current device
PollSmsFail ==
    /\ pc = "get_sms"
    /\ LET dev_id == DevIdOf(devices_raw[idx])
           S == [Store EXCEPT !.heap[state].last_error = "err",
                              !.unpublished = TRUE,
                              !.cycle.failed = @ \cup {<<dev_id, Ingestions(state)>>}]
       IN  Advance(S, Put(new_devices, dev_id, state))
    /\ UNCHANGED <<total_sent, inflight, last_call, configVars, hooks, hook_raised, pulse_clears>>

\* latest_msg.get("_id") or latest_msg.get("id") or latest_msg.get("smsId")
SmsIdOf(latest_msg) ==
    OrChain(<<Get(latest_msg, "_id"), Get(latest_msg, "id"), Get(latest_msg, "smsId")>>)

\* mutation of PollSmsOk: a latest message with an id is ingested whether or
\* not the record already carries that id
PollSmsOkAlwaysIngests(msgs) ==
    /\ pc = "get_sms"
    /\ LET dev_id == DevIdOf(devices_raw[idx])
           latest_msg == Latest(msgs)
           sms_id == SmsIdOf(latest_msg)
           S0 == IF Has(new_devices, dev_id) \/ ~Truthy(sms_id) THEN Store
                 ELSE [Store EXCEPT !.cycle.fresh =
                                       @ \cup {<<dev_id, sms_id, TextOf(latest_msg)>>}]
           S == IF latest_msg = NoMsg THEN S0
                ELSE IF Truthy(sms_id)
                     THEN ProcessIncoming(S0, dev_id, latest_msg, sms_id, "poll")
                     ELSE [S0 EXCEPT !.heap[state].last_message = latest_msg,
                                     !.unpublished = TRUE]
       IN  Advance(S, Put(new_devices, dev_id, state))
    /\ UNCHANGED <<total_sent, inflight, last_call, configVars, hooks, hook_raised, pulse_clears>>

\* async_get_received_sms returns msgs for the current device
PollSmsOk(msgs) ==
    /\ pc = "get_sms"
    /\ LET dev_id == DevIdOf(devices_raw[idx])
           latest_msg == Latest(msgs)
           sms_id == SmsIdOf(latest_msg)
           S0 == IF Has(new_devices, dev_id) \/ ~Truthy(sms_id) THEN Store
                 ELSE [Store EXCEPT !.cycle.fresh =
                                       @ \cup {<<dev_id, sms_id, TextOf(latest_msg)>>}]
           S == IF latest_msg = NoMsg THEN S0
                ELSE IF Truthy(sms_id) /\ sms_id # heap[state].last_message_id
                     THEN ProcessIncoming(S0, dev_id, latest_msg, sms_id, "poll")
                     ELSE [S0 EXCEPT !.heap[state].last_message = latest_msg,
                                     !.unpublished = TRUE]
       IN  Advance(S, Put(new_devices, dev_id, state))
    /\ UNCHANGED <<total_sent, inflight, last_call, configVars, hooks, hook_raised, pulse_clears>>

\* ---------------------------------------------------------- the webhook
\* the device id handle_incoming_webhook resolves (lines 313-319)
HookDevId(payload) ==
    OrChain(<<Get(payload, "deviceId"), Get(payload, "device_id"),
              Get(payload, "device"), Get(payload, "gatewayId"), "">>)

\* isinstance(v, dict)
IsDict(v) == "json" \notin DOMAIN v

\* the message handle_incoming_webhook takes from a payload (line 324)
HookMsg(payload) ==
    IF "data" \in DOMAIN payload /\ IsDict(payload.data) THEN payload.data ELSE payload

\* _handle_webhook with a request whose JSON body is payload:
\* handle_incoming_webhook(payload).  payload.get on a body that is not a
\* dict raises AttributeError, which neither function catches.
Webhook(payload) ==
    LET dev_id == HookDevId(payload)
        msg == HookMsg(payload)
        sms_id == OrChain(<<Get(msg, "_id"), Get(payload, "smsId")>>)
    IN  /\ hooks < MaxHook
        /\ IF ~IsDict(payload)
           THEN /\ hook_raised' = TRUE
                /\ UNCHANGED <<heap, devices, total_received, timers, counted, cycle,
                               replyVars, hooks, unpublished>>
           ELSE IF ~Truthy(dev_id)
           THEN /\ hook_raised' = FALSE
                /\ UNCHANGED <<heap, devices, total_received, timers, counted, cycle,
                               replyVars, hooks, unpublished>>
           ELSE /\ Commit(ProcessIncoming(Store, dev_id, msg, sms_id, "webhook"))
                /\ hooks' = hooks + 1
                /\ hook_raised' = FALSE
        /\ UNCHANGED <<total_sent, pc, devices_raw, idx, new_devices, state, inflight,
                       last_call, configVars, pulse_clears>>

\* ------------------------------------------------------ the pulse timer
\* mutation of ClearPulse: the callback leaves the pulse up while a later
\* timer is pending for its record
ClearPulseKeepsFresh ==
    /\ timers # <<>>
    /\ heap' = IF \E j \in 2..Len(timers) : timers[j] = Head(timers)
               THEN heap
               ELSE [heap EXCEPT ![Head(timers)].new_message_pulse = FALSE]
    /\ timers' = Tail(timers)
    /\ unpublished' = FALSE
    /\ pulse_clears' = pulse_clears + 1
    /\ UNCHANGED <<devices, total_sent, total_received, pc, devices_raw, idx,
                   new_devices, state, inflight, last_call, counted, cycle>>
    /\ UNCHANGED <<configVars, hooks, hook_raised, replyVars>>

\* mutation of ClearPulse: the callback that fires cancels the timers still
\* pending for its record
ClearPulseCancelsRest ==
    /\ timers # <<>>
    /\ heap' = [heap EXCEPT ![Head(timers)].new_message_pulse = FALSE]
    /\ timers' = SelectSeq(Tail(timers), LAMBDA r : r # Head(timers))
    /\ unpublished' = FALSE
    /\ pulse_clears' = pulse_clears + 1
    /\ UNCHANGED <<devices, total_sent, total_received, pc, devices_raw, idx,
                   new_devices, state, inflight, last_call, counted, cycle>>
    /\ UNCHANGED <<configVars, hooks, hook_raised, replyVars>>

\* mutation of ClearPulse: the callback that fires leaves the pulse up
ClearPulseLeavesUp ==
    /\ timers # <<>>
    /\ timers' = Tail(timers)
    /\ unpublished' = FALSE
    /\ pulse_clears' = pulse_clears + 1
    /\ UNCHANGED <<heap, devices, total_sent, total_received, pc, devices_raw, idx,
                   new_devices, state, inflight, last_call, counted, cycle>>
    /\ UNCHANGED <<configVars, hooks, hook_raised, replyVars>>

\* the oldest pending _clear_pulse fires (all timers have the same delay)
ClearPulse ==
    /\ timers # <<>>
    /\ heap' = [heap EXCEPT ![Head(timers)].new_message_pulse = FALSE]
    /\ timers' = Tail(timers)
    /\ unpublished' = FALSE
    /\ pulse_clears' = pulse_clears + 1
    /\ UNCHANGED <<devices, total_sent, total_received, pc, devices_raw, idx,
                   new_devices, state, inflight, last_call, counted, cycle>>
    /\ UNCHANGED <<configVars, hooks, hook_raised, replyVars>>

\* ------------------------------------------------------- outbound sends
\* ", ".join(recipients): the string, as its separator and its parts
Join(recipients) == [sep |-> ", ", parts |-> recipients]

\* mutation of RecordSent: the send is counted once per recipient
RecordSentPerRecipient(S, device_id, recipients, message) ==
    LET did == TargetKey(S.devices, device_id)
        create == ~Has(S.devices, did)
        heap1 == IF create THEN Append(S.heap, NewState(did)) ELSE S.heap
        cnt1 == IF create THEN Append(S.counted, NoCount) ELSE S.counted
        devs1 == IF create
                 THEN Append(S.devices, [id |-> did, ref |-> Len(heap1)])
                 ELSE S.devices
        r == Lookup(devs1, did)
        old == heap1[r]
        new == [old EXCEPT
                  !.sent_count = old.sent_count + Len(recipients),
                  !.last_direction = "outgoing",
                  !.last_outgoing_to =
                      IF recipients # <<>> THEN Join(recipients) ELSE old.last_outgoing_to,
                  !.last_outgoing_text = message]
    IN  [S EXCEPT !.heap = [heap1 EXCEPT ![r] = new],
                  !.devices = devs1,
                  !.counted = cnt1,
                  !.unpublished = FALSE]

\* record_sent_sms(device_id, recipients, message)
RecordSent(S, device_id, recipients, message) ==
    LET did == TargetKey(S.devices, device_id)
        create == ~Has(S.devices, did)
        heap1 == IF create THEN Append(S.heap, NewState(did)) ELSE S.heap
        cnt1 == IF create THEN Append(S.counted, NoCount) ELSE S.counted
        devs1 == IF create
                 THEN Append(S.devices, [id |-> did, ref |-> Len(heap1)])
                 ELSE S.devices
        r == Lookup(devs1, did)
        old == heap1[r]
        new == [old EXCEPT
                  !.sent_count = old.sent_count + 1,
                  !.last_direction = "outgoing",
                  !.last_outgoing_to =
                      IF recipients # <<>> THEN Join(recipients) ELSE old.last_outgoing_to,
                  !.last_outgoing_text = message]
    IN  [S EXCEPT !.heap = [heap1 EXCEPT ![r] = new],
                  !.devices = devs1,
                  !.counted = cnt1,
                  !.unpublished = FALSE]

\* _async_handle_send_message up to the await of client.async_send_sms
SendStart(call) ==
    LET d0 == Get(call, "device_id")
        device_id == IF ~Truthy(d0) /\ devices # <<>> THEN FirstKey(devices) ELSE d0
    IN  /\ Len(inflight) < MaxInflight
        /\ inflight' =
              IF ~Truthy(device_id) \/ call.recipients = <<>>
              THEN inflight
              ELSE Append(inflight, [device_id |-> device_id,
                                     recipients |-> call.recipients,
                                     message |-> call.message])
        /\ last_call' =
              IF ~Truthy(device_id) \/ call.recipients = <<>>
              THEN [send |-> "none", handler |-> "returned"]
              ELSE last_call
        /\ UNCHANGED <<heap, devices, total_sent, total_received, timers, pc,
                       devices_raw, idx, new_devices, state, counted, cycle>>
        /\ UNCHANGED <<configVars, hooks, hook_raised, pulse_clears, replyVars, unpublished>>

Without(seq, j) == [k \in 1..(Len(seq) - 1) |-> IF k < j THEN seq[k] ELSE seq[k + 1]]

\* the send returns: coordinator.record_sent_sms(device_id, recipients, message)
SendOk(j) ==
    /\ j \in 1..Len(inflight)
    /\ total_sent < MaxSent
    /\ Commit(RecordSent(Store, inflight[j].device_id, inflight[j].recipients,
                         inflight[j].message))
    /\ total_sent' = total_sent + 1
    /\ inflight' = Without(inflight, j)
    /\ last_call' = [send |-> "ok", handler |-> "returned"]
    /\ UNCHANGED <<pc, devices_raw, idx, new_devices, state, configVars, hooks, hook_raised, pulse_clears>>

\* mutation of SendFail: the failed send is recorded like a successful one
SendFailCounted(j) ==
    /\ j \in 1..Len(inflight)
    /\ total_sent < MaxSent
    /\ Commit(RecordSent(Store, inflight[j].device_id, inflight[j].recipients,
                         inflight[j].message))
    /\ total_sent' = total_sent + 1
    /\ inflight' = Without(inflight, j)
    /\ last_call' = [send |-> "failed", handler |-> "returned"]
    /\ UNCHANGED <<pc, devices_raw, idx, new_devices, state, configVars, hooks, hook_raised, pulse_clears>>

\* the send raises TextBeeError: the handler logs it and returns, nothing is
\* recorded
SendFail(j) ==
    /\ j \in 1..Len(inflight)
    /\ inflight' = Without(inflight, j)
    /\ last_call' = [send |-> "failed", handler |-> "returned"]
    /\ UNCHANGED <<heap, devices, total_sent, total_received, timers, pc,
                   devices_raw, idx, new_devices, state, counted, cycle>>
    /\ UNCHANGED <<configVars, hooks, hook_raised, pulse_clears, replyVars, unpublished>>

\* ------------------------------------------------------------ auto-reply
\* a task created by async_create_task starts (tasks start in creation order)
AutoReplyStart ==
    /\ tasks # <<>>
    /\ Commit(MaybeAutoreply([Store EXCEPT !.tasks = Tail(@)],
                             Head(tasks).device_id, Head(tasks).sender))
    /\ UNCHANGED <<total_sent, pc, devices_raw, idx, new_devices, state, inflight, last_call,
                   configVars, hooks, hook_raised, pulse_clears>>

\* mutation of AutoReplyFail: the failed attempt is stamped in the throttle
AutoReplyFailStamped(j) ==
    /\ j \in 1..Len(replies)
    /\ replies[j].status = "sending"
    /\ replies' = [replies EXCEPT ![j].status = "failed"]
    /\ auto_reply_last' =
          [auto_reply_last EXCEPT ![replies[j].device_id] =
              DictSet(@, replies[j].sender, replies[j].now)]
    /\ UNCHANGED <<heap, devices, total_sent, total_received, timers, pc,
                   devices_raw, idx, new_devices, state, inflight, last_call,
                   counted, cycle, configVars, hooks, hook_raised, pulse_clears, tasks, unpublished>>

\* the auto-reply's send raises TextBeeError: logged, the task returns
AutoReplyFail(j) ==
    /\ j \in 1..Len(replies)
    /\ replies[j].status = "sending"
    /\ replies' = [replies EXCEPT ![j].status = "failed"]
    /\ UNCHANGED <<heap, devices, total_sent, total_received, timers, pc,
                   devices_raw, idx, new_devices, state, inflight, last_call, counted, cycle,
                   configVars, hooks, hook_raised, pulse_clears, auto_reply_last, tasks, unpublished>>

\* the auto-reply's send returns: per_device[sender] = now and
\* record_sent_sms(device_id, [sender], message)
AutoReplyOk(j) ==
    /\ j \in 1..Len(replies)
    /\ replies[j].status = "sending"
    /\ total_sent < MaxSent
    /\ LET t == replies[j]
           S == [Store EXCEPT !.replies[j].status = "sent",
                              !.auto_reply_last[t.device_id] =
                                  DictSet(@, t.sender, t.now)]
       IN  Commit(RecordSent(S, t.device_id, <<t.sender>>, t.message))
    /\ total_sent' = total_sent + 1
    /\ UNCHANGED <<pc, devices_raw, idx, new_devices, state, inflight, last_call, configVars, hooks, hook_raised, pulse_clears>>

\* set_auto_reply_enabled(device_id, enabled)
SetAutoReplyEnabled(device_id, enabled) ==
    /\ auto_reply_enabled' = DictSet(auto_reply_enabled, device_id, enabled)
    /\ UNCHANGED <<heap, devices, total_sent, total_received, timers, pc,
                   devices_raw, idx, new_devices, state, inflight, last_call, counted, cycle,
                   auto_reply_message, now, eager_start, replyVars, hooks, hook_raised, pulse_clears, unpublished>>

\* set_auto_reply_message(device_id, message)
SetAutoReplyMessage(device_id, message) ==
    /\ auto_reply_message' = DictSet(auto_reply_message, device_id, message)
    /\ UNCHANGED <<heap, devices, total_sent, total_received, timers, pc,
                   devices_raw, idx, new_devices, state, inflight, last_call, counted, cycle,
                   auto_reply_enabled, now, eager_start, replyVars, hooks, hook_raised, pulse_clears, unpublished>>

\* half an hour passes: by then every pending pulse timer (5 s) has fired,
\* every created task has started and every send has returned or timed out
\* (15 s)
Tick ==
    /\ now < MaxTime
    /\ timers = <<>>
    /\ tasks = <<>>
    /\ inflight = <<>>
    /\ \A j \in 1..Len(replies) : replies[j].status # "sending"
    /\ now' = now + 1
    /\ UNCHANGED <<heap, devices, total_sent, total_received, timers, pc,
                   devices_raw, idx, new_devices, state, inflight, last_call, counted, cycle,
                   auto_reply_enabled, auto_reply_message, eager_start, replyVars,
                   hooks, hook_raised, pulse_clears,
                   unpublished>>

\* ------------------------------------------------------- specification
\* poll cycle, webhook and pulse timers, against a gateway account with one
\* device
Next ==
    \/ PollStart
    \/ PollDevicesFail
    \/ \E devs \in SingleLists : PollDevicesOk(devs)
    \/ PollSmsFail
    \/ \E msgs \in MessageLists : PollSmsOk(msgs)
    \/ \E payload \in Payloads : Webhook(payload)
    \/ ClearPulse

Spec == InitEager /\ [][Next]_vars

\* the poll cycle and the pulse timers alone, against an account with up to
\* two devices
NextPoll ==
    \/ PollStart
    \/ PollDevicesFail
    \/ \E devs \in DeviceLists : PollDevicesOk(devs)
    \/ PollSmsFail
    \/ \E msgs \in MessageLists : PollSmsOk(msgs)
    \/ ClearPulse

SpecPoll == InitEager /\ [][NextPoll]_vars

\* the poll cycle and the pulse timers alone, one device
NextPollOne ==
    \/ PollStart
    \/ PollDevicesFail
    \/ \E devs \in SingleLists : PollDevicesOk(devs)
    \/ PollSmsFail
    \/ \E msgs \in MessageLists : PollSmsOk(msgs)
    \/ ClearPulse

SpecPollOne == InitEager /\ [][NextPollOne]_vars

\* the same, the event loop running every timer callback that is due
SpecPulse == SpecPollOne /\ WF_vars(ClearPulse)

\* the poll cycle and the send_message service, one device
NextSend ==
    \/ PollStart
    \/ PollDevicesFail
    \/ \E devs \in SingleLists : PollDevicesOk(devs)
    \/ PollSmsFail
    \/ \E msgs \in MessageLists : PollSmsOk(msgs)
    \/ \E call \in SendCalls : SendStart(call)
    \/ \E j \in 1..MaxInflight : SendFail(j)
    \/ \E j \in 1..MaxInflight : SendOk(j)

SpecSend == InitEager /\ [][NextSend]_vars

\* the webhook, the pulse timers, the auto-reply entities and tasks, and the
\* clock, under either release of async_create_task
NextReply ==
    \/ \E payload \in Payloads : Webhook(payload)
    \/ ClearPulse
    \/ AutoReplyStart
    \/ \E j \in 1..MaxReply : AutoReplyFail(j)
    \/ \E j \in 1..MaxReply : AutoReplyOk(j)
    \/ \E d \in ReplyDevs : \E b \in BOOLEAN : SetAutoReplyEnabled(d, b)
    \/ \E d \in ReplyDevs : \E m \in ReplyTexts : SetAutoReplyMessage(d, m)
    \/ Tick

SpecReply == Init /\ [][NextReply]_vars

\* the same with request bodies of any shape
NextHook ==
    \/ \E payload \in BadPayloads : Webhook(payload)
    \/ NextReply

SpecHook == Init /\ [][NextHook]_vars

\* the poll cycle against a gateway that can render a message anew, and the
\* auto-reply entities and tasks, under either release of async_create_task
NextRefresh ==
    \/ PollStart
    \/ PollDevicesFail
    \/ \E devs \in SingleLists : PollDevicesOk(devs)
    \/ PollSmsFail
    \/ \E msgs \in EditedLists : PollSmsOk(msgs)
    \/ AutoReplyStart
    \/ \E d \in ReplyDevs : \E b \in BOOLEAN : SetAutoReplyEnabled(d, b)
    \/ \E d \in ReplyDevs : \E m \in ReplyTexts : SetAutoReplyMessage(d, m)

SpecRefresh == Init /\ [][NextRefresh]_vars

\* the same with events that name no sender
NextSenderless ==
    \/ \E payload \in SenderlessPayloads : Webhook(payload)
    \/ NextReply

SpecSenderless == Init /\ [][NextSenderless]_vars

\* the events of Payloads for device d1 with message m1 and for device dx
SentPayloads ==
    {p \in Payloads : HookDevId(p) \in {"d1", "dx"} /\ HookMsg(p) # M2}

\* the sends that succeed, manual and automatic: the webhook, the auto-reply
\* entities and tasks, and the send_message service
NextSent ==
    \/ \E payload \in SentPayloads : Webhook(payload)
    \/ AutoReplyStart
    \/ \E j \in 1..MaxReply : AutoReplyOk(j)
    \/ \E d \in ReplyDevs : \E b \in BOOLEAN : SetAutoReplyEnabled(d, b)
    \/ \E d \in ReplyDevs : \E m \in ReplyTexts : SetAutoReplyMessage(d, m)
    \/ \E call \in SendCalls : SendStart(call)
    \/ \E j \in 1..MaxInflight : SendOk(j)

SpecSent == Init /\ [][NextSent]_vars

\* device d1 alone: the lists of a gateway that holds at most message m1,
\* the webhook events for d1 with that message, and the send_message calls
\* that name d1
ShortLists == {msgs \in MessageLists : \A j \in 1..Len(msgs) : msgs[j] = M1 /\ j = 1}
OwnPayloads == {p \in SentPayloads : HookDevId(p) = "d1"}
OwnCalls == {call \in SendCalls : Get(call, "device_id") = "d1" /\ call.recipients # <<>>}

\* every writer of the aggregate: the poll cycle, the webhook, the pulse
\* timers and the send_message service, one device
NextWriters ==
    \/ PollStart
    \/ PollDevicesFail
    \/ \E devs \in SingleLists : PollDevicesOk(devs)
    \/ PollSmsFail
    \/ \E msgs \in ShortLists : PollSmsOk(msgs)
    \/ \E payload \in OwnPayloads : Webhook(payload)
    \/ ClearPulse
    \/ \E call \in OwnCalls : SendStart(call)
    \/ \E j \in 1..MaxInflight : SendOk(j)

SpecWriters == InitEager /\ [][NextWriters]_vars

\* the poll cycle against a gateway whose descriptor of d1 carries signal
\* readings
NextSignal ==
    \/ PollStart
    \/ PollDevicesFail
    \/ \E devs \in SignalLists : PollDevicesOk(devs)
    \/ PollSmsFail
    \/ \E msgs \in ShortLists : PollSmsOk(msgs)

SpecSignal == InitEager /\ [][NextSignal]_vars

\* the poll cycle against a gateway whose lists have messages with equal
\* timestamps and messages without one
NextLatest ==
    \/ PollStart
    \/ PollDevicesFail
    \/ \E devs \in SingleLists : PollDevicesOk(devs)
    \/ PollSmsFail
    \/ \E msgs \in TiedLists : PollSmsOk(msgs)

SpecLatest == InitEager /\ [][NextLatest]_vars

\* the device lists of an account whose two devices the gateway lists
\* together, in either order
PairLists == {devs \in DeviceLists : Len(devs) = 2}

\* the send_message calls that name a recipient
BookCalls == {call \in SendCalls : call.recipients # <<>>}

\* the poll cycle against that account with fetches that succeed, and the
\* send_message calls that reach the gateway
NextBook ==
    \/ PollStart
    \/ \E devs \in PairLists : PollDevicesOk(devs)
    \/ \E msgs \in ShortLists : PollSmsOk(msgs)
    \/ \E call \in BookCalls : SendStart(call)
    \/ \E j \in 1..MaxInflight : SendOk(j)

SpecBook == InitEager /\ [][NextBook]_vars

TypeOK ==
    /\ pc \in {"idle", "get_devices", "get_sms"}
    /\ Len(heap) = Len(counted)
    /\ \A j \in 1..Len(devices) : devices[j].ref \in 1..Len(heap)
    /\ \A j \in 1..Len(timers) : timers[j] \in 1..Len(heap)
    /\ hooks = HooksDone
    /\ unpublished \in BOOLEAN
    /\ total_received = HooksDone + (LET RECURSIVE Sum(_)
                                         Sum(n) == IF n = 0 THEN 0
                                                   ELSE Sum(n - 1) + IngestedBy(counted, n, "poll")
                                     IN  Sum(Len(counted)))

\* ---------------------------------------------------------------- claims
Refs == 1..Len(heap)

\* the state objects the aggregate holds
Held(devs) == {devs[j].ref : j \in 1..Len(devs)}

\* C1: over any sequence of poll cycles on a device, an id the polls return as
\* the latest message increments the record's received_count at most once,
\* however often and in whatever order ids recur.
C1_PollCountsIdOnce ==
    \A r \in Held(devices) : \A d \in AllDeviceIds : \A m \in MsgIds :
        counted[r][<<"poll", d, m>>] <= 1

\* C2: a message delivered once by the webhook and once by a poll, in either
\* order, increments received_count once in total: no record has the same id
\* counted by both paths.
C2_HookAndPollCountOnce ==
    \A r \in Held(devices) : \A d \in AllDeviceIds : \A m \in MsgIds :
        ~(counted[r][<<"poll", d, m>>] >= 1 /\ counted[r][<<"webhook", d, m>>] >= 1)

\* C3: while a poll cycle is suspended at a network call, no step counts an
\* id on a record that the other producer path has already counted there.
C3_NoDoubleCountWhileSuspended ==
    [][pc # "idle" =>
         \A r \in Held(devices) \cap Held(devices') :
         \A d \in AllDeviceIds : \A m \in MsgIds :
            /\ counted'[r][<<"webhook", d, m>>] > counted[r][<<"webhook", d, m>>]
                  => counted[r][<<"poll", d, m>>] = 0
            /\ counted'[r][<<"poll", d, m>>] > counted[r][<<"poll", d, m>>]
                  => counted[r][<<"webhook", d, m>>] = 0]_vars

\* C4: an id delivered several times through the webhook for a device
\* increases received_count (and with it total_received) once.
C4_RedeliveryCountsOnce ==
    \A r \in Held(devices) : \A d \in AllDeviceIds : \A m \in MsgIds :
        counted[r][<<"webhook", d, m>>] <= 1

\* C5: when a poll cycle that saw a device for the first time completes, and
\* the device's latest message had an id, the device's record has
\* received_count 1, that id as last_message_id, the body as
\* last_incoming_text and the pulse raised (unless its timer already fired).
C5_FirstSightingIngested ==
    [][(pc = "get_sms" /\ pc' = "idle") =>
         \A e \in cycle'.fresh :
            /\ Has(devices', e[1])
            /\ LET r == Lookup(devices', e[1])
               IN  /\ heap'[r].received_count = 1
                   /\ heap'[r].last_message_id = e[2]
                   /\ heap'[r].last_incoming_text = e[3]
                   /\ heap'[r].new_message_pulse
                        \/ \A j \in 1..Len(timers') : timers'[j] # r]_vars

\* C6: in every step the counters of every device id of the aggregate and
\* the account totals do not decrease, and they are never negative.
C6_CountersMonotonic ==
    [][/\ total_sent' >= total_sent /\ total_sent >= 0
       /\ total_received' >= total_received /\ total_received >= 0
       /\ \A d \in Keys(devices) :
            /\ heap[Lookup(devices, d)].received_count >= 0
            /\ heap[Lookup(devices, d)].sent_count >= 0
            /\ Has(devices', d) =>
                 /\ heap'[Lookup(devices', d)].received_count
                       >= heap[Lookup(devices, d)].received_count
                 /\ heap'[Lookup(devices', d)].sent_count
                       >= heap[Lookup(devices, d)].sent_count]_vars

\* C7: a device id that is a key of the aggregate's mapping stays a key in
\* every later state.
C7_KeysNeverRemoved ==
    [][Keys(devices) \subseteq Keys(devices')]_vars

\* C8: a webhook event whose device id is unknown, received when at least one
\* device is known, is ingested on the first-inserted device: its
\* received_count and total_received grow by 1 and no record is created.
C8_UnknownIdGoesToFirstDevice ==
    [][(hooks' = hooks + 1 /\ devices # <<>>) =>
       \A p \in Payloads :
         (/\ Truthy(HookDevId(p))
          /\ ~Has(devices, HookDevId(p))
          /\ Webhook(p))
         => /\ devices' = devices
            /\ Len(heap') = Len(heap)
            /\ heap'[devices[1].ref].received_count
                  = heap[devices[1].ref].received_count + 1
            /\ \A r \in Refs :
                  r # devices[1].ref => heap'[r].received_count = heap[r].received_count
            /\ total_received' = total_received + 1]_vars

\* a remapped event sits on the first of two known devices
C8_Witness ==
    /\ Len(devices) >= 2
    /\ LET rec == heap[devices[1].ref]
       IN  /\ rec.received_count >= 1
           /\ HookDevId(rec.last_message) = "dy"
           /\ rec.device_id # "dy"

\* C9: a webhook event with a resolvable device id, received when no device
\* is known, creates exactly one record, keyed by the received id, and
\* ingests the message on it (received_count 1).
C9_FirstEventCreatesRecord ==
    [][(hooks' = hooks + 1 /\ devices = <<>>) =>
       \A p \in Payloads :
         (/\ Truthy(HookDevId(p))
          /\ Webhook(p))
         => /\ Len(heap') = Len(heap) + 1
            /\ devices' = <<[id |-> HookDevId(p), ref |-> Len(heap')]>>
            /\ heap'[Len(heap')].device_id = HookDevId(p)
            /\ heap'[Len(heap')].received_count = 1
            /\ total_received' = total_received + 1]_vars

\* the only record is the one a webhook created under its own device id
C9_Witness ==
    /\ Len(devices) = 1
    /\ devices[1].id = "dx"
    /\ LET rec == heap[devices[1].ref]
       IN  /\ rec.received_count = 1
           /\ HookDevId(rec.last_message) = "dx"
           /\ counted[devices[1].ref][<<"webhook", "dx", "m2">>] = 1

\* C10: when a poll cycle in which the message fetch failed for a device
\* completes, that device's record carries the error and has had no message
\* ingested since the failure; and in such a cycle every other device's new
\* latest message is ingested and adds 1 to total_received.
C10_FetchFailureIsolated ==
    [][/\ (pc = "get_sms" /\ pc' = "idle") =>
            \A f \in cycle'.failed :
               /\ Has(devices', f[1])
               /\ heap'[Lookup(devices', f[1])].last_error = "err"
               /\ IngestedBy(counted', Lookup(devices', f[1]), "poll")
                  + IngestedBy(counted', Lookup(devices', f[1]), "webhook") = f[2]
       /\ \A msgs \in MessageLists :
            (/\ pc = "get_sms"
             /\ cycle.failed # {}
             /\ Truthy(SmsIdOf(Latest(msgs)))
             /\ SmsIdOf(Latest(msgs)) # heap[state].last_message_id
             /\ PollSmsOk(msgs))
            => total_received' = total_received + 1]_vars

\* C11: a poll cycle whose device-list fetch fails ends as a failure, and
\* neither its start nor its failing end changes any device record, the
\* mapping, total_sent or total_received.
C11_ListFailureKeepsState ==
    [][/\ (pc = "get_devices" /\ cycle'.outcome = "failed") =>
            /\ pc' = "idle"
            /\ UNCHANGED <<heap, devices, total_sent, total_received>>
       /\ (pc = "idle" /\ pc' = "get_devices") =>
            UNCHANGED <<heap, devices, total_sent, total_received>>]_vars

\* a cycle has just failed while the aggregate holds a record with a message
C11_Witness ==
    /\ pc = "idle"
    /\ cycle.outcome = "failed"
    /\ devices # <<>>
    /\ heap[devices[1].ref].received_count >= 1

Senders == {"+1555", "+1666"}

\* auto-reply is switched on for device d with a text that is not blank
ReplyReady(d) ==
    /\ d \in DOMAIN auto_reply_enabled /\ auto_reply_enabled[d]
    /\ d \in DOMAIN auto_reply_message /\ Strip(auto_reply_message[d]) # ""

\* in this step _async_maybe_autoreply(d, s) runs up to its return or await
ReplyTaskRuns(d, s) ==
    \/ /\ tasks # <<>>
       /\ tasks' = Tail(tasks)
       /\ Head(tasks) = [device_id |-> d, sender |-> s]
    \/ /\ eager_start
       /\ hooks' = hooks + 1
       /\ \E p \in Payloads :
             /\ TargetKey(devices, HookDevId(p)) = d
             /\ SenderOf(HookMsg(p)) = s
             /\ Webhook(p)

\* this step issues an auto-reply send for (d, s)
ReplyIssued(d, s) ==
    /\ Len(replies') = Len(replies) + 1
    /\ replies'[Len(replies')].device_id = d
    /\ replies'[Len(replies')].sender = s

\* C12: for every (device, sender), any two auto-reply sends that did not
\* fail were issued at least one hour apart, also when the second ingestion's
\* task starts before the first send has returned.
C12_OneReplyPerWindow ==
    \A i \in 1..Len(replies) : \A j \in 1..Len(replies) :
        (/\ i < j
         /\ replies[i].device_id = replies[j].device_id
         /\ replies[i].sender = replies[j].sender
         /\ replies[i].status # "failed"
         /\ replies[j].status # "failed")
        => replies[j].now - replies[i].now >= Hour

\* C13: with auto-reply on, a text that is not blank and no send failing, the
\* auto-reply task of an incoming message from a sender issues a send exactly
\* when no auto-reply went to that sender for the device within the last
\* hour: a second message within the window gets none, a message after the
\* window gets one.
C13_SecondMessageThrottled ==
    [][\A d \in AllDeviceIds : \A s \in Senders :
         (/\ ReplyReady(d)
          /\ \A j \in 1..Len(replies) : replies[j].status # "failed"
          /\ ReplyTaskRuns(d, s))
         => (ReplyIssued(d, s)
               <=> ~\E j \in 1..Len(replies) :
                       /\ replies[j].device_id = d
                       /\ replies[j].sender = s
                       /\ now - replies[j].now < Hour)]_vars

\* this step ingests, through src, a message delivered for device id d
IngestedFor(src, d) ==
    \E r \in 1..Len(counted') : \E m \in MsgIds \cup {None} :
        counted'[r][<<src, d, m>>] >
            (IF r <= Len(counted) THEN counted[r][<<src, d, m>>] ELSE 0)

\* no _clear_pulse callback is pending for object r
NoTimer(tm, r) == \A j \in 1..Len(tm) : tm[j] # r

\* C14: right after a message is ingested for a device, by poll or by
\* webhook, the device's record in the aggregate has new_message_pulse set;
\* and once the timer armed by the last ingestion on a record has fired
\* (5 seconds after it: all timers have the same delay and fire in arming
\* order), the record's pulse is down until the next ingestion.
C14_PulseLifecycle ==
    [][/\ \A d \in AllDeviceIds :
            /\ IngestedFor("poll", d) =>
                  /\ Has(devices', d)
                  /\ heap'[Lookup(devices', d)].new_message_pulse
            /\ IngestedFor("webhook", d) =>
                  /\ Has(devices', TargetKey(devices, d))
                  /\ heap'[Lookup(devices', TargetKey(devices, d))].new_message_pulse
       /\ \A r \in Held(devices') :
            NoTimer(timers', r) => ~heap'[r].new_message_pulse]_vars

\* the outgoing side of object r
SentSide(h, r) ==
    <<h[r].sent_count, h[r].last_direction, h[r].last_outgoing_to,
      h[r].last_outgoing_text>>

\* in this step a send_message call ends whose outbound send failed
ManualSendFailed ==
    /\ Len(inflight') < Len(inflight)
    /\ last_call'.send = "failed"

\* C15: the step in which a send_message call ends after a failed outbound
\* send changes no record's sent_count, last_direction, last_outgoing_to or
\* last_outgoing_text and not total_sent; and a step that changes a sent
\* counter raises total_sent by 1 and ends a send that succeeded.
C15_FailedSendNotCounted ==
    [][/\ ManualSendFailed =>
            /\ total_sent' = total_sent
            /\ devices' = devices
            /\ Len(heap') = Len(heap)
            /\ \A r \in Refs : SentSide(heap', r) = SentSide(heap, r)
       /\ (\/ total_sent' # total_sent
           \/ \E r \in Refs : heap'[r].sent_count # heap[r].sent_count
           \/ \E r \in 1..Len(heap') : r > Len(heap) /\ heap'[r].sent_count # 0) =>
            /\ total_sent' = total_sent + 1
            /\ \/ Len(inflight') < Len(inflight) /\ last_call'.send = "ok"
               \/ \E j \in 1..Len(replies) :
                     replies[j].status = "sending" /\ replies'[j].status = "sent"]_vars

\* a send has failed after an earlier one was recorded
C15_Witness ==
    /\ last_call.send = "failed"
    /\ total_sent = 1
    /\ devices # <<>>
    /\ heap[devices[1].ref].sent_count = 1
    /\ heap[devices[1].ref].last_direction = "outgoing"

\* C16: a send_message call whose outbound send fails ends by raising an
\* error to its caller, not by returning.
C16_FailureReachesCaller ==
    [][ManualSendFailed => last_call'.handler = "raised"]_vars

\* C17: the step in which an auto-reply's send fails records no throttle
\* timestamp, changes no record and no total, and creates no task, send or
\* timer; and afterwards a message from that sender starts a task that
\* issues a send again whenever every auto-reply to the sender within the
\* last hour has failed.
C17_FailedReplyNotStamped ==
    [][/\ \A j \in 1..Len(replies) :
            (replies[j].status = "sending" /\ replies'[j].status = "failed") =>
               /\ auto_reply_last' = auto_reply_last
               /\ heap' = heap /\ devices' = devices
               /\ total_sent' = total_sent
               /\ tasks' = tasks /\ timers' = timers /\ inflight' = inflight
               /\ Len(replies') = Len(replies)
       /\ \A d \in ReplyDevs : \A s \in Senders :
            (/\ ReplyReady(d)
             /\ \A j \in 1..Len(replies) :
                   (/\ replies[j].device_id = d
                    /\ replies[j].sender = s
                    /\ now - replies[j].now < Hour) => replies[j].status = "failed"
             /\ ReplyTaskRuns(d, s))
            => ReplyIssued(d, s)]_vars

\* after a failed auto-reply, a second one to the same sender went out within
\* the hour
C17_Witness ==
    \E i \in 1..Len(replies) : \E j \in 1..Len(replies) :
        /\ i < j
        /\ replies[i].status = "failed"
        /\ replies[j].status = "sent"
        /\ replies[i].device_id = replies[j].device_id
        /\ replies[i].sender = replies[j].sender
        /\ replies[j].now - replies[i].now < Hour
        /\ replies[j].now > replies[i].now

\* the body carries no device id, or is no key-value object
Malformed(payload) == ~IsDict(payload) \/ ~Truthy(HookDevId(payload))

\* C18: a webhook call whose body carries no device id or is no key-value
\* object changes neither the aggregate, the throttle state, the pending
\* timers, the tasks nor the sends, and returns without an error.
C18_MalformedDropped ==
    [][\A p \in Payloads \cup BadPayloads :
         (Malformed(p) /\ Webhook(p)) =>
            /\ UNCHANGED <<heap, devices, total_sent, total_received, timers,
                           auto_reply_last, tasks, replies>>
            /\ ~hook_raised']_vars

\* C19: for every device id of the aggregate, a last_message_id that is set
\* stays set, and it changes only in a step that ingests on the device's
\* record a message carrying an id different from the current one; the end of
\* a poll cycle and a message without an id leave it as it is.
C19_LastIdStable ==
    [][\A d \in Keys(devices) :
         Has(devices', d) =>
            LET old == heap[Lookup(devices, d)]
                new == heap'[Lookup(devices', d)]
            IN  /\ old.last_message_id # None => new.last_message_id # None
                /\ new.last_message_id # old.last_message_id =>
                      /\ new.received_count = old.received_count + 1
                      /\ total_received' = total_received + 1
                      /\ new.last_message_id = IngestId(new.last_message, None)]_vars

\* the position of key k in the mapping d
IndexOf(d, k) == CHOOSE j \in 1..Len(d) : d[j].id = k

\* C20: once the aggregate holds a device, every step leaves the mapping
\* non-empty with the same first key, and keeps the device ids present
\* before and after the step in the same relative order.
C20_FirstKeyStable ==
    [][devices # <<>> =>
         /\ devices' # <<>>
         /\ FirstKey(devices') = FirstKey(devices)
         /\ \A i \in 1..Len(devices) : \A j \in 1..Len(devices) :
               (/\ i < j
                /\ Has(devices', devices[i].id)
                /\ Has(devices', devices[j].id))
               => IndexOf(devices', devices[i].id) < IndexOf(devices', devices[j].id)]_vars

\* the step is an ingestion by the poll cycle
PollIngests == pc = "get_sms" /\ hooks' = hooks /\ total_received' = total_received + 1

\* what one ingestion of msg does to the record r, to the account total and
\* to the timers, and that the listeners are notified of it
IngestionEffects(r, msg, id) ==
    /\ heap'[r].last_message = msg
    /\ heap'[r].last_message_id = id
    /\ heap'[r].last_direction = "incoming"
    /\ heap'[r].last_incoming_from
          = (IF "sender" \in DOMAIN msg THEN msg.sender ELSE msg.from)
    /\ heap'[r].last_incoming_text
          = (IF "message" \in DOMAIN msg THEN msg.message ELSE msg.body)
    /\ heap'[r].received_count = heap[r].received_count + 1
    /\ total_received' = total_received + 1
    /\ heap'[r].status = (IF Truthy(heap[r].status) THEN heap[r].status ELSE "online")
    /\ heap'[r].last_error = None
    /\ heap'[r].new_message_pulse
    /\ timers' = Append(timers, r)
    /\ ~unpublished'

\* C21: one ingestion of a message with an id on a known device, by the
\* webhook or by the poll, sets last_message and last_message_id to the
\* message and its id, last_direction to incoming, last_incoming_from and
\* last_incoming_text to its sender and body, adds 1 to received_count and
\* to total_received, keeps a non-empty prior status or sets "online",
\* clears last_error, raises the pulse, arms one pulse-clear timer and
\* notifies the listeners.
C21_IngestionEffects ==
    [][/\ hooks' = hooks + 1 =>
            \A p \in Payloads :
               (Has(devices, HookDevId(p)) /\ Webhook(p)) =>
                  IngestionEffects(Lookup(devices, HookDevId(p)), HookMsg(p),
                                   OrChain(<<Get(HookMsg(p), "_id"), Get(p, "smsId"),
                                             Get(HookMsg(p), "id")>>))
       /\ (PollIngests /\ Has(devices, DevIdOf(devices_raw[idx]))) =>
            \E m \in {M1, M2} :
               IngestionEffects(Lookup(devices, DevIdOf(devices_raw[idx])), m,
                                IF m = M1 THEN "m1" ELSE "m2")]_vars

\* a record of the aggregate has been ingested on twice, and an ingestion
\* has cleared the error the last poll cycle's failed fetch had left on it
C21_Witness ==
    \E r \in Held(devices) :
        /\ heap[r].received_count = 2
        /\ heap[r].last_error = None
        /\ heap[r].new_message_pulse
        /\ r \in {f[1] : f \in {<<Lookup(devices, e[1]), e[2]>> :
                                  e \in {x \in cycle.failed : Has(devices, x[1])}}}

\* the number of times the ingestion routine has run on the object r, in the
\* history cnt
Ingested(cnt, r) == IngestedBy(cnt, r, "poll") + IngestedBy(cnt, r, "webhook")

\* C22: when the latest message a poll gets for a device carries the id the
\* record the cycle holds for the device already has as last_message_id, the
\* step only refreshes last_message: the record's received_count, pulse,
\* last_direction, last_incoming_from, last_incoming_text and
\* last_message_id, and total_received, stay as they were, no timer is
\* armed and no auto-reply task or send is created.  And whenever a step
\* raises a received_count, total_received or a pulse flag, the ingestion
\* routine has run in that step on that object.
C22_SameIdOnlyRefreshes ==
    [][/\ (pc = "get_sms" /\ pc' # "get_sms") =>
            \A msgs \in EditedLists \ {<<>>} :
               (/\ SmsIdOf(Latest(msgs)) = heap[state].last_message_id
                /\ Truthy(SmsIdOf(Latest(msgs)))
                /\ PollSmsOk(msgs))
               => /\ heap'[state].last_message = Latest(msgs)
                  /\ heap'[state].last_message_id = heap[state].last_message_id
                  /\ heap'[state].received_count = heap[state].received_count
                  /\ heap'[state].new_message_pulse = heap[state].new_message_pulse
                  /\ heap'[state].last_direction = heap[state].last_direction
                  /\ heap'[state].last_incoming_from = heap[state].last_incoming_from
                  /\ heap'[state].last_incoming_text = heap[state].last_incoming_text
                  /\ total_received' = total_received
                  /\ timers' = timers
                  /\ tasks' = tasks
                  /\ replies' = replies
       /\ \A r \in Refs :
            (\/ heap'[r].received_count > heap[r].received_count
             \/ heap'[r].new_message_pulse /\ ~heap[r].new_message_pulse)
            => Ingested(counted', r) = Ingested(counted, r) + 1
       /\ total_received' > total_received =>
            \E r \in 1..Len(heap') :
               Ingested(counted', r) = (IF r \in Refs THEN Ingested(counted, r) ELSE 0) + 1]_vars

\* the record of the aggregate carries the edited rendition of its message
\* and still the text and the count of the one ingestion of that message
C22_Witness ==
    \E r \in Held(devices) :
        /\ heap[r].last_message = M1e
        /\ heap[r].last_message_id = "m1"
        /\ heap[r].last_incoming_text = "hi"
        /\ heap[r].received_count = 1

\* the ingestions on object r in the history cnt of a step's end state, r
\* possibly created in the step
IngestedSince(r) == Ingested(counted', r) - (IF r \in Refs THEN Ingested(counted, r) ELSE 0)

\* C23: every ingestion arms exactly one pulse-clear timer, for the record
\* it ingested on, and only an ingestion arms one; a timer that fires leaves
\* the pending ones, sets new_message_pulse to false on the record it was
\* armed for and notifies the listeners; armed timers are either pending or
\* have fired once, and every armed timer fires, so that the number of
\* pulse clears comes to equal the number of ingestions.
C23_OneClearPerIngestion ==
    /\ [][/\ total_received' # total_received =>
              /\ total_received' = total_received + 1
              /\ timers' = Append(timers, timers'[Len(timers')])
              /\ IngestedSince(timers'[Len(timers')]) = 1
              /\ pulse_clears' = pulse_clears
          /\ pulse_clears' # pulse_clears =>
              /\ pulse_clears' = pulse_clears + 1
              /\ timers # <<>>
              /\ timers' = Tail(timers)
              /\ ~heap'[Head(timers)].new_message_pulse
              /\ ~unpublished'
              /\ total_received' = total_received
          /\ (total_received' = total_received /\ pulse_clears' = pulse_clears)
                => timers' = timers]_vars
    /\ [](pulse_clears + Len(timers) = total_received)
    /\ \A n \in 1..MaxRecv : (total_received >= n) ~> (pulse_clears >= n)

\* two ingestions have happened and both their timers have fired
C23_Witness ==
    /\ total_received >= 2
    /\ pulse_clears = total_received
    /\ timers = <<>>

\* a timer armed after the first pending one is for the same record: a
\* message ingested on it is not yet 5 seconds old
FresherPending == \E j \in 2..Len(timers) : timers[j] = Head(timers)

\* C24: an ingestion leaves every pending pulse-clear timer pending, and a
\* timer that fires while a later one is pending for the same record still
\* sets new_message_pulse to false on it and leaves the later one pending.
C24_PendingTimerNotCancelled ==
    [][/\ total_received' = total_received + 1 =>
            /\ Len(timers') = Len(timers) + 1
            /\ SubSeq(timers', 1, Len(timers)) = timers
       /\ (pulse_clears' = pulse_clears + 1 /\ FresherPending) =>
            /\ ~heap'[Head(timers)].new_message_pulse
            /\ timers' = Tail(timers)]_vars

\* a record of the aggregate has its pulse down while the timer of its
\* second message is still pending
C24_Witness ==
    \E r \in Held(devices) :
        /\ ~heap[r].new_message_pulse
        /\ heap[r].received_count >= 2
        /\ pulse_clears >= 1
        /\ \E j \in 1..Len(timers) : timers[j] = r

\* in this step the ingestion routine ran on the record of device d with a
\* message from sender s
IngestedFrom(d, s) ==
    /\ hooks' = hooks + 1
    /\ Has(devices', d)
    /\ IngestedSince(Lookup(devices', d)) = 1
    /\ heap'[Lookup(devices', d)].last_incoming_from = s

\* C25: a step issues an auto-reply send only for a non-empty sender, with
\* auto-reply switched on for the send's device and that device's text not
\* blank as the task runs, and only in a task an ingestion on that device's
\* record dispatched for that sender (the task started later, or run within
\* the ingestion); with the switch off or never set no send is issued.
C25_ReplyOnlyWhenConfigured ==
    [][/\ Len(replies') > Len(replies) =>
            LET r == replies'[Len(replies')]
            IN  /\ replies' = Append(replies, r)
                /\ Truthy(r.sender)
                /\ ReplyReady(r.device_id)
                /\ r.message = auto_reply_message[r.device_id]
                /\ \/ /\ tasks # <<>>
                      /\ Head(tasks) = [device_id |-> r.device_id, sender |-> r.sender]
                      /\ tasks' = Tail(tasks)
                   \/ /\ eager_start
                      /\ IngestedFrom(r.device_id, r.sender)
       /\ Len(tasks') > Len(tasks) =>
            LET k == tasks'[Len(tasks')]
            IN  /\ tasks' = Append(tasks, k)
                /\ Truthy(k.sender)
                /\ IngestedFrom(k.device_id, k.sender)]_vars

\* a send has been issued, and with auto-reply ready a message without a
\* sender has been ingested on the device
C25_Witness ==
    /\ replies # <<>>
    /\ ReplyReady("d1")
    /\ Len(replies) < MaxReply
    /\ tasks = <<>>
    /\ Has(devices, "d1")
    /\ heap[Lookup(devices, "d1")].last_incoming_from = None
    /\ heap[Lookup(devices, "d1")].received_count >= 2

\* the key record_sent_sms(d, ...) books a send under: d when it is a key,
\* else the first key, else d (created)
BookedKey(d) ==
    IF d \in Keys(devices) THEN d
    ELSE IF devices # <<>> THEN devices[1].id ELSE d

\* in this step one send for device id d was booked: sent_count of the
\* record under its key and total_sent rose by 1, no other sent_count moved
OneSendBooked(d) ==
    /\ total_sent' = total_sent + 1
    /\ Has(devices', BookedKey(d))
    /\ LET r == Lookup(devices', BookedKey(d))
       IN  /\ heap'[r].sent_count = (IF r \in Refs THEN heap[r].sent_count ELSE 0) + 1
           /\ \A o \in Refs : o # r => heap'[o].sent_count = heap[o].sent_count

\* C26: the step in which an auto-reply send returns records the time the
\* task ran as the throttle timestamp of (device, sender), and books one
\* send: one sent_count and total_sent rise by exactly 1, as in the step in
\* which a send_message call's send returns, however many recipients that
\* call had.
C26_ReplyBookedOnce ==
    [][/\ \A j \in 1..Len(replies) :
            (replies[j].status = "sending" /\ replies'[j].status = "sent") =>
               /\ auto_reply_last'[replies[j].device_id][replies[j].sender]
                     = replies[j].now
               /\ OneSendBooked(replies[j].device_id)
       /\ (Len(inflight') < Len(inflight) /\ last_call'.send = "ok") =>
            \E j \in 1..Len(inflight) :
               /\ inflight' = Without(inflight, j)
               /\ OneSendBooked(inflight[j].device_id)]_vars

\* an auto-reply and a send_message call to two recipients have both been
\* booked
C26_Witness ==
    /\ \E j \in 1..Len(replies) : replies[j].status = "sent"
    /\ total_sent = 2
    /\ \E r \in Held(devices) :
          /\ heap[r].sent_count = 2
          /\ heap[r].last_outgoing_to = Join(<<"+1555", "+1666">>)

\* the step writes to the aggregate: to a state object, the mapping or a total
AggregateWritten ==
    \/ heap' # heap
    \/ devices' # devices
    \/ total_sent' # total_sent
    \/ total_received' # total_received

\* the step is the poll cycle running up to its next await
PollSuspends == pc' = "get_sms" /\ (pc # "get_sms" \/ idx' # idx)

\* C27: every step that writes to the aggregate (an ingestion, a pulse
\* clear, a booked send, the completion of a poll cycle) ends with the
\* listeners notified of the aggregate as it is, except a step that leaves
\* the poll cycle at an await, whose writes the completion of the cycle
\* notifies; so whenever no cycle is in progress the listeners have been
\* notified of the aggregate as it is.
C27_WritesAreNotified ==
    /\ [][AggregateWritten => (~unpublished' \/ PollSuspends)]_vars
    /\ [](pc = "idle" => ~unpublished)

\* a poll cycle has completed after a webhook ingestion and a booked send
\* took place, and nothing is left unnotified
C27_Witness ==
    /\ pc = "idle"
    /\ cycle.outcome = "ok"
    /\ hooks >= 1
    /\ total_sent >= 1
    /\ pulse_clears >= 1
    /\ ~unpublished
    /\ \E r \in Held(devices) : heap[r].last_error = "err"

\* the raw strength keys of a descriptor
RawKeys == {"signal_strength", "signalStrength", "signal", "signal_level"}

\* the bars the thresholds <0, <25, <50, <75 give an integer v
ThresholdBars(v) ==
    IF v < 0 THEN 0
    ELSE IF v < 25 THEN 1
    ELSE IF v < 50 THEN 2
    ELSE IF v < 75 THEN 3
    ELSE 4

\* C28: when the descriptor a poll cycle merges has no discrete bars value
\* and one raw strength key, carrying an integer v, the record has after the
\* merge signal_bars 0 for v < 0, 1 for 0 <= v < 25, 2 for 25 <= v < 50,
\* 3 for 50 <= v < 75 and 4 for v >= 75, and signal_value v.
C28_BarsFromRawStrength ==
    [][(pc = "get_devices" /\ pc' = "get_sms") =>
         LET dev == devices_raw'[1]
         IN  \A k \in RawKeys :
                (/\ DOMAIN dev \cap (RawKeys \cup {"signalBars"}) = {k}
                 /\ IsNumber(dev[k])
                 /\ ~dev[k].half)
                => /\ heap'[state'].signal_bars = Num(ThresholdBars(dev[k].num))
                   /\ heap'[state'].signal_value = dev[k]]_vars

\* C29: the signal_bars of every record of the aggregate is unset or an
\* integer from 0 to 4.
C29_BarsInRange ==
    \A r \in Held(devices) :
        \/ heap[r].signal_bars = Null
        \/ /\ IsNumber(heap[r].signal_bars)
           /\ ~heap[r].signal_bars.half
           /\ heap[r].signal_bars.num \in 0..4

\* the timestamp key of a message: the first of receivedAt, createdAt and
\* sentAt it carries, 0 (the empty key) when it carries none
FirstPresent(m) ==
    IF "receivedAt" \in DOMAIN m THEN m.receivedAt
    ELSE IF "createdAt" \in DOMAIN m THEN m.createdAt
    ELSE IF "sentAt" \in DOMAIN m THEN m.sentAt
    ELSE 0

\* the first message of a non-empty list whose key no message exceeds
FirstMaximal(msgs) ==
    msgs[CHOOSE j \in 1..Len(msgs) :
           /\ \A k \in 1..Len(msgs) : FirstPresent(msgs[k]) <= FirstPresent(msgs[j])
           /\ \A k \in 1..(j - 1) : FirstPresent(msgs[k]) < FirstPresent(msgs[j])]

\* C30: for every non-empty list the gateway returns for a device, the poll
\* treats as latest the first message whose timestamp key is maximal over
\* the list: that message's id alone is compared with the record's
\* last_message_id, and it is the message ingested (id present and
\* different) or the message last_message is refreshed with.
C30_LatestIsFirstMaximal ==
    [][(pc = "get_sms" /\ pc' # "get_sms") =>
         \A msgs \in TiedLists \ {<<>>} :
            PollSmsOk(msgs) =>
               LET m == FirstMaximal(msgs)
                   id == IF "_id" \in DOMAIN m THEN m._id
                         ELSE IF "id" \in DOMAIN m THEN m.id ELSE None
               IN  IF id # None /\ id # heap[state].last_message_id
                   THEN /\ total_received' = total_received + 1
                        /\ \E r \in 1..Len(heap') :
                              /\ IngestedSince(r) = 1
                              /\ heap'[r].last_message = m
                              /\ heap'[r].last_message_id = id
                   ELSE /\ total_received' = total_received
                        /\ heap'[state].last_message = m]_vars

\* the record of the aggregate holds TB, ingested from a list in which TB
\* came before a message with the same timestamp
C30_Witness ==
    \E r \in Held(devices) :
        /\ heap[r].last_message = TB
        /\ heap[r].last_message_id = "m2"
        /\ heap[r].received_count >= 1

\* the sum of received_count over the records of the mapping devs
ReceivedSum(h, devs) ==
    LET RECURSIVE Sum(_)
        Sum(n) == IF n = 0 THEN 0 ELSE Sum(n - 1) + h[devs[n].ref].received_count
    IN  Sum(Len(devs))

\* the sum of sent_count over the records of the mapping devs
SentSum(h, devs) ==
    LET RECURSIVE Sum(_)
        Sum(n) == IF n = 0 THEN 0 ELSE Sum(n - 1) + h[devs[n].ref].sent_count
    IN  Sum(Len(devs))

\* C31: in every state, within a poll cycle or after one, total_received is
\* the sum of received_count and total_sent the sum of sent_count over the
\* records of the aggregate.
C31_TotalsAreSums ==
    /\ total_received = ReceivedSum(heap, devices)
    /\ total_sent = SentSum(heap, devices)

\* C32: a message the poll of device D ingests is ingested on D's own
\* record: every state object whose received_count a poll-path ingestion
\* for D has raised (and whose last_message_id, last_incoming_from,
\* last_incoming_text and pulse it has set) is a record of D, also when D
\* is first seen while other devices are known.
C32_PollIngestsOnOwnRecord ==
    \A r \in Refs : \A d \in DeviceIds : \A m \in MsgIds \cup {None} :
        counted[r][<<"poll", d, m>>] > 0 => heap[r].device_id = d

\* the step is the poll cycle resuming from the fetch of a device's messages
PollResumes == pc = "get_sms" /\ hooks' = hooks /\ pulse_clears' = pulse_clears

\* C33: a poll cycle ingests at most one message per device: the step that
\* handles a device's fetched list raises total_received by at most 1 and
\* arms at most one timer, however many unseen messages the list has; no
\* record has its received_count raised (and a timer armed) by the same
\* cycle twice; and a list whose latest message carries no id is not
\* ingested.
C33_OneIngestionPerDevice ==
    [][PollResumes =>
         /\ total_received' <= total_received + 1
         /\ Len(timers') <= Len(timers) + 1
         /\ \A r \in 1..Len(heap') :
               IngestedSince(r) <= 1 /\ (IngestedSince(r) = 1 => r \notin cycle.ingested)
         /\ \A msgs \in MessageLists :
               (PollSmsOk(msgs) /\ ~Truthy(SmsIdOf(Latest(msgs)))) =>
                  /\ total_received' = total_received
                  /\ timers' = timers]_vars

\* a _clear_pulse callback is pending for object r
TimerPending(r) == \E j \in 1..Len(timers) : timers[j] = r

\* C34: every state object whose new_message_pulse is true, in the
\* aggregate or not, has a pulse-clear timer pending that was armed for it;
\* and with every due timer callback run, a pulse that is up comes down.
C34_PulseHasPendingTimer ==
    /\ [](\A r \in Refs : heap[r].new_message_pulse => TimerPending(r))
    /\ \A r \in 1..MaxObj :
          (r \in Refs /\ heap[r].new_message_pulse)
             ~> (r \in Refs /\ ~heap[r].new_message_pulse)

\* a record of the aggregate has its pulse up, after an earlier pulse was
\* cleared and with the timer of an earlier ingestion still pending
C34_Witness ==
    \E r \in Held(devices) :
        /\ heap[r].new_message_pulse
        /\ pulse_clears >= 1
        /\ Len(timers) >= 2
        /\ timers[Len(timers)] = r

\* C35: the step in which a send_message call's send returns books it on
\* exactly one record: the record under the call's device id when that is a
\* key, else the record of the first-inserted key, else (no key at all) a
\* record created under the given id.  That record's sent_count rises by 1
\* and its last_direction becomes "outgoing", total_sent rises by 1, and
\* every other record, the record's received_count and total_received stay
\* as they were.
C35_SendChangesOneRecord ==
    [][total_sent' # total_sent =>
         \E j \in 1..Len(inflight) :
            LET d == inflight[j].device_id
                k == BookedKey(d)
                r == IF Has(devices, k) THEN Lookup(devices, k) ELSE Len(heap) + 1
            IN  /\ inflight' = Without(inflight, j)
                /\ total_sent' = total_sent + 1
                /\ ~Has(devices, k) => (devices = <<>> /\ k = d)
                /\ devices' = IF Has(devices, k) THEN devices
                              ELSE <<[id |-> d, ref |-> r]>>
                /\ Len(heap') = (IF r \in Refs THEN Len(heap) ELSE r)
                /\ heap'[r].device_id = (IF r \in Refs THEN heap[r].device_id ELSE d)
                /\ heap'[r].sent_count = (IF r \in Refs THEN heap[r].sent_count ELSE 0) + 1
                /\ heap'[r].last_direction = "outgoing"
                /\ heap'[r].received_count =
                      (IF r \in Refs THEN heap[r].received_count ELSE 0)
                /\ \A o \in Refs \ {r} : heap'[o] = heap[o]
                /\ total_received' = total_received]_vars

\* with two devices known, d2 inserted first, a send for an id that is no
\* key has been booked on the record of d2 and the record of d1 is untouched
C35_Witness ==
    /\ Len(devices) = 2
    /\ devices[1].id = "d2"
    /\ total_sent = 1
    /\ heap[devices[1].ref].sent_count = 1
    /\ heap[devices[1].ref].last_direction = "outgoing"
    /\ heap[devices[1].ref].last_outgoing_to = Join(<<"+1555">>)
    /\ heap[devices[2].ref].sent_count = 0
    /\ heap[devices[2].ref].last_direction = None
    /\ last_call = [send |-> "ok", handler |-> "returned"]

====
